---------------------------- MODULE Spec2Model ----------------------------
(***************************************************************************)
(* Model of src/traffic-light.js: the Intersection controller, its four    *)
(* TrafficLight heads and the browser timer service it uses (setTimeout /  *)
(* clearTimeout).  Time is counted in whole seconds; every callback and    *)
(* every command runs to completion (single-threaded event loop).          *)
(***************************************************************************)
EXTENDS Integers, FiniteSets, Sequences, Bags, TLC

VARIABLES
    currentState,      \* Intersection.currentState
    activeDirection,   \* Intersection.activeDirection
    lights,            \* currentState of the four TrafficLight objects
    autoModeInterval,  \* Intersection.autoModeInterval (0 models null)
    yellowTimeout,     \* Intersection.yellowTimeout: a timer id, 0 models null
    timers,            \* the timer service: bag of pending [id, kind, rem]
    lastCmd,           \* observer: the last command invoked from outside
    ncmd,              \* observer: number of commands invoked so far
    now                \* observer: stopwatch, seconds since the last command
                       \* (run by TickTimed only)

ctl  == <<currentState, activeDirection, lights>>
vars == <<currentState, activeDirection, lights, autoModeInterval,
          yellowTimeout, timers, lastCmd, ncmd, now>>

-----------------------------------------------------------------------------
(* Program constants (seconds).                                            *)
YellowDelay == 3
GreenDelay == 10
ContDelay == 13

(* Bounds of the model.                                                    *)
MaxAutoTimers == 2
MaxCmds == 3
MaxClock == 60

Heads == {"north", "south", "east", "west"}
Directions == {"north-south", "east-west"}
Phases == {"red", "yellow", "green"}

-----------------------------------------------------------------------------
(* The timer service.  A pending timer is [id, kind, rem]: kind names the  *)
(* callback ("yellow": line 114, "green": line 185, "cont": line 191) and  *)
(* rem the seconds left before it is due.  id is the handle setTimeout     *)
(* returned when the program stored it, and 0 when the program dropped it  *)
(* (lines 185 and 191): no clearTimeout can name such a timer, and several *)
(* of them may be equal, so the pending timers form a bag.                 *)

TimerIds(ts) == {t.id : t \in BagToSet(ts)}

\* An id no pending timer has and the handle `held` does not name.  (Browser
\* ids are positive and never reused; the only handle the program keeps is
\* yellowTimeout, so reusing any other dead id cannot be observed.)
NewId(ts, held) ==
    CHOOSE n \in 1..(Cardinality(BagToSet(ts)) + 2) :
        /\ n \notin TimerIds(ts) \cup {held}
        /\ \A m \in 1..(n - 1) : m \in TimerIds(ts) \cup {held}

\* clearTimeout(id) / clearInterval(id): drops the pending timer with that
\* id; a no-op for an id that is not pending.
clearTimeout(ts, id) == [t \in {u \in BagToSet(ts) : u.id # id} |-> ts[t]]

\* The record of the program's own fields, on which the methods operate.
State == [currentState |-> currentState, activeDirection |-> activeDirection,
          lights |-> lights, autoModeInterval |-> autoModeInterval,
          yellowTimeout |-> yellowTimeout, timers |-> timers]

\* setTimeout(callback, delay) whose handle the caller drops.
setTimeout(s, kind, delay) ==
    [s EXCEPT !.timers =
        @ (+) SetToBag({[id |-> 0, kind |-> kind, rem |-> delay]})]

-----------------------------------------------------------------------------
(* TrafficLight                                                            *)

setState(l, h, state) == [l EXCEPT ![h] = state]

getState(l, h) == l[h]

-----------------------------------------------------------------------------
(* Intersection                                                            *)

\* render without the two setState('red') calls of the inactive pair.
render_ActiveOnly(s) ==
    IF s.activeDirection = "north-south"
    THEN [s EXCEPT !.lights =
            setState(setState(@, "north", s.currentState),
                     "south", s.currentState)]
    ELSE [s EXCEPT !.lights =
            setState(setState(@, "east", s.currentState),
                     "west", s.currentState)]

render(s) ==
    IF s.activeDirection = "north-south"
    THEN [s EXCEPT !.lights =
            setState(setState(setState(setState(@,
                "north", s.currentState), "south", s.currentState),
                "east", "red"), "west", "red")]
    ELSE [s EXCEPT !.lights =
            setState(setState(setState(setState(@,
                "east", s.currentState), "west", s.currentState),
                "north", "red"), "south", "red")]

\* changeToGreen without its render() call.
changeToGreen_NoRender(s) == [s EXCEPT !.currentState = "green"]

changeToGreen(s) == render([s EXCEPT !.currentState = "green"])

\* changeToYellow that clears the previous timer and arms none.
changeToYellow_NoArm(s) ==
    LET s1 == render([s EXCEPT !.currentState = "yellow"])
    IN  IF s1.yellowTimeout # 0
        THEN [s1 EXCEPT !.timers = clearTimeout(@, s1.yellowTimeout)]
        ELSE s1

\* changeToYellow without the clearTimeout of the previous timer.
changeToYellow_NoClear(s) ==
    LET s1 == render([s EXCEPT !.currentState = "yellow"])
        id == NewId(s1.timers, s1.yellowTimeout)
    IN  [s1 EXCEPT !.timers = @ (+) SetToBag({[id |-> id, kind |-> "yellow",
                                                rem |-> YellowDelay]}),
                   !.yellowTimeout = id]

changeToYellow(s) ==
    LET s1 == render([s EXCEPT !.currentState = "yellow"])
        ts == IF s1.yellowTimeout # 0
              THEN clearTimeout(s1.timers, s1.yellowTimeout)
              ELSE s1.timers
        id == NewId(ts, s1.yellowTimeout)
    IN  [s1 EXCEPT !.timers = ts (+) SetToBag({[id |-> id, kind |-> "yellow",
                                                rem |-> YellowDelay]}),
                   !.yellowTimeout = id]

\* changeToRed that also cancels every pending timer (cancel-on-manual).
changeToRed_CancelAll(s) ==
    render([s EXCEPT
        !.activeDirection = IF @ = "north-south" THEN "east-west"
                            ELSE "north-south",
        !.currentState = "green",
        !.timers = EmptyBag])

\* changeToRed that stores 'red' and keeps the direction.
changeToRed_StoresRed(s) == render([s EXCEPT !.currentState = "red"])

\* changeToRed without the assignment currentState = 'green'.
changeToRed_KeepPhase(s) ==
    render([s EXCEPT
        !.activeDirection = IF @ = "north-south" THEN "east-west"
                            ELSE "north-south"])

changeToRed(s) ==
    render([s EXCEPT
        !.activeDirection = IF @ = "north-south" THEN "east-west"
                            ELSE "north-south",
        !.currentState = "green"])

stateSequence == <<"green", "yellow", "red">>

indexOf(seq, x) ==
    IF \E i \in 1..Len(seq) : seq[i] = x
    THEN (CHOOSE i \in 1..Len(seq) :
            seq[i] = x /\ \A j \in 1..(i - 1) : seq[j] # x) - 1
    ELSE -1

\* nextState without the "+ 1" of nextIndex.
nextState_SameIndex(s) ==
    LET currentIndex == indexOf(stateSequence, s.currentState)
        nextIndex == currentIndex % Len(stateSequence)
        next == stateSequence[nextIndex + 1]
    IN  IF next = "yellow" THEN changeToYellow(s)
        ELSE IF next = "red" THEN changeToRed(s)
        ELSE changeToGreen(s)

nextState(s) ==
    LET currentIndex == indexOf(stateSequence, s.currentState)
        nextIndex == (currentIndex + 1) % Len(stateSequence)
        next == stateSequence[nextIndex + 1]
    IN  IF next = "yellow" THEN changeToYellow(s)
        ELSE IF next = "red" THEN changeToRed(s)
        ELSE changeToGreen(s)

stopAutoMode(s) ==
    LET s1 == IF s.autoModeInterval # 0
              THEN [s EXCEPT !.timers = clearTimeout(@, s.autoModeInterval),
                             !.autoModeInterval = 0]
              ELSE s
    IN  IF s1.yellowTimeout # 0
        THEN [s1 EXCEPT !.timers = clearTimeout(@, s1.yellowTimeout),
                        !.yellowTimeout = 0]
        ELSE s1

\* runAutoCycle up to its return: green now, the 10-second callback armed.
runAutoCycle(s) == setTimeout(changeToGreen(s), "green", GreenDelay)

\* The 10-second callback without its inner setTimeout.
greenExpiry_NoCont(s) == changeToYellow(s)

\* The 10-second callback (lines 185-195).
greenExpiry(s) == setTimeout(changeToYellow(s), "cont", ContDelay)

startAutoMode(s) ==
    runAutoCycle(IF s.autoModeInterval # 0 THEN stopAutoMode(s) ELSE s)

\* What a due timer runs.
callback(kind, s) ==
    IF kind = "yellow" THEN changeToRed(s)
    ELSE IF kind = "green" THEN greenExpiry(s)
    ELSE runAutoCycle(s)

-----------------------------------------------------------------------------
(* State after construction (line 215).                                    *)

newLights == [h \in Heads |-> "red"]

constructed ==
    render([currentState |-> "green", activeDirection |-> "north-south",
            lights |-> newLights, autoModeInterval |-> 0,
            yellowTimeout |-> 0, timers |-> EmptyBag])

Init ==
    /\ currentState = constructed.currentState
    /\ activeDirection = constructed.activeDirection
    /\ lights = constructed.lights
    /\ autoModeInterval = constructed.autoModeInterval
    /\ yellowTimeout = constructed.yellowTimeout
    /\ timers = constructed.timers
    /\ lastCmd = "none"
    /\ ncmd = 0
    /\ now = 0

Becomes(s) ==
    /\ currentState' = s.currentState
    /\ activeDirection' = s.activeDirection
    /\ lights' = s.lights
    /\ autoModeInterval' = s.autoModeInterval
    /\ yellowTimeout' = s.yellowTimeout
    /\ timers' = s.timers

\* The pending timers of the given kinds, and how many there are.
Pending(ts, kinds) == [t \in {u \in BagToSet(ts) : u.kind \in kinds} |-> ts[t]]
AutoTimers == Pending(timers, {"green", "cont"})
YellowTimers == Pending(timers, {"yellow"})
NumAuto == BagCardinality(AutoTimers)
NumYellow == BagCardinality(YellowTimers)
Due == {t \in BagToSet(timers) : t.rem = 0}

\* A command arrives from the console.
Issued(c) ==
    /\ lastCmd' = c
    /\ ncmd' = IF ncmd < MaxCmds THEN ncmd + 1 ELSE ncmd
    /\ now' = 0

CmdChangeToGreen == Becomes(changeToGreen(State)) /\ Issued("changeToGreen")

CmdChangeToYellow == Becomes(changeToYellow(State)) /\ Issued("changeToYellow")

CmdChangeToRed == Becomes(changeToRed(State)) /\ Issued("changeToRed")

CmdNextState == Becomes(nextState(State)) /\ Issued("nextState")

CmdStartAutoMode ==
    /\ NumAuto < MaxAutoTimers
    /\ Becomes(startAutoMode(State))
    /\ Issued("startAutoMode")

CmdStopAutoMode == Becomes(stopAutoMode(State)) /\ Issued("stopAutoMode")

\* A due timer fires: it leaves the timer service and its callback runs.
Fire(t) ==
    /\ t.rem = 0
    /\ Becomes(callback(t.kind,
                        [State EXCEPT !.timers = @ (-) SetToBag({t})]))
    /\ UNCHANGED <<lastCmd, ncmd, now>>

TimerFire == \E t \in BagToSet(timers) : Fire(t)

\* One second passes; a due timer fires before time moves on.
Advance ==
    /\ Due = {}
    /\ timers' = [u \in {[t EXCEPT !.rem = @ - 1] : t \in BagToSet(timers)}
                      |-> timers[[u EXCEPT !.rem = @ + 1]]]
    /\ UNCHANGED <<currentState, activeDirection, lights, autoModeInterval,
                   yellowTimeout, lastCmd, ncmd>>

\* Time passing with the stopwatch off (the general specification, in which
\* no property reads the time) ...
Tick == Advance /\ UNCHANGED now

\* ... and with the stopwatch running (the timed scenarios below).
TickTimed == Advance /\ now' = IF now < MaxClock THEN now + 1 ELSE now

Next ==
    \/ CmdChangeToGreen
    \/ CmdChangeToYellow
    \/ CmdChangeToRed
    \/ CmdNextState
    \/ CmdStartAutoMode
    \/ CmdStopAutoMode
    \/ TimerFire
    \/ Tick

Spec == Init /\ [][Next]_vars

-----------------------------------------------------------------------------
(* Scenario: the bootstrap's single startAutoMode() on the fresh           *)
(* controller (lines 215-216), then nothing but time and timers.           *)

StartOnce == ncmd = 0 /\ CmdStartAutoMode

NextAuto ==
    \/ StartOnce
    \/ TimerFire
    \/ TickTimed

SpecAuto == Init /\ [][NextAuto]_vars

\* Every armed timer eventually fires: time passes and the event loop runs
\* each due callback.
SpecAutoFair ==
    Init /\ [][NextAuto]_vars /\ WF_vars(TimerFire) /\ WF_vars(TickTimed)

(* Scenario: a burst of nextState() calls on the fresh controller with no  *)
(* delay between them, then nothing but time and timers.                   *)

BurstNextState == ncmd < MaxCmds /\ now = 0 /\ CmdNextState

NextBurst ==
    \/ BurstNextState
    \/ TimerFire
    \/ TickTimed

SpecBurst == Init /\ [][NextBurst]_vars

-----------------------------------------------------------------------------
(* Properties                                                              *)

NSNonRed == lights.north # "red" \/ lights.south # "red"
EWNonRed == lights.east # "red" \/ lights.west # "red"
Other(d) == IF d = "north-south" THEN "east-west" ELSE "north-south"
PairShows(l, d, p) ==
    IF d = "north-south" THEN l.north = p /\ l.south = p
    ELSE l.east = p /\ l.west = p

\* C1: in every reachable state exactly one of north-south / east-west is
\* the active direction, both heads of the inactive pair show red, and the
\* two pairs are never non-red at the same time.
C1_InactivePairRed ==
    /\ activeDirection \in Directions
    /\ PairShows(lights, Other(activeDirection), "red")
    /\ ~(NSNonRed /\ EWNonRed)

\* C1 witness: east-west is active and yellow while auto-cycle timers of two
\* startAutoMode() calls and a yellow timer are pending.
C1_Witness ==
    /\ activeDirection = "east-west"
    /\ lights.east = "yellow"
    /\ lights.north = "red"
    /\ NumAuto = 2
    /\ NumYellow = 1

\* C2 (as claimed): once stopAutoMode() was the last command, no later step
\* changes the phase, the active direction or any displayed head.
C2_StopIsFinal ==
    [][(lastCmd = "stopAutoMode" /\ lastCmd' = "stopAutoMode")
          => UNCHANGED ctl]_vars

\* C3 (as claimed): at most one auto-cycle timer (10-second green expiry or
\* 13-second continuation) is pending in every reachable state.
C3_OneAutoChain == NumAuto <= 1

\* The phase and direction the claimed 26-second timetable gives at second t.
Timetable(t) ==
    LET r == t % 26
    IN  IF r < 10 THEN <<"green", "north-south">>
        ELSE IF r < 13 THEN <<"yellow", "north-south">>
        ELSE IF r < 23 THEN <<"green", "east-west">>
        ELSE <<"yellow", "east-west">>

\* C4 (as claimed): after the single startAutoMode() at second 0, at every
\* second (once the callbacks due at it have run) the controller is where
\* the timetable NS green 0, NS yellow 10, EW green 13, EW yellow 23,
\* NS green 26, repeating every 26 seconds, puts it.
C4_Timetable26 ==
    (lastCmd = "startAutoMode" /\ Due = {} /\ now < MaxClock)
        => /\ <<currentState, activeDirection>> = Timetable(now)
           /\ PairShows(lights, activeDirection, currentState)

\* C5: at most one yellow-expiry timer is ever pending, and it is the one
\* yellowTimeout names; every changeToYellow() leaves exactly one, due 3
\* seconds after that call; when it fires none is left.
C5_OneYellowTimer ==
    /\ [](/\ NumYellow <= 1
          /\ \A t \in BagToSet(YellowTimers) : t.id = yellowTimeout)
    /\ [][CmdChangeToYellow =>
            /\ NumYellow' = 1
            /\ \A t \in BagToSet(YellowTimers') : t.rem = YellowDelay]_vars
    /\ [][(\E t \in BagToSet(YellowTimers) : Fire(t)) => NumYellow' = 0]_vars

\* C5 witness: two commands only, the second changeToYellow(); the timer
\* with id 2 was armed while the handle of timer 1 was still held, timer 1
\* never fired (the direction is still north-south) and is gone.
C5_Witness ==
    /\ ncmd = 2
    /\ lastCmd = "changeToYellow"
    /\ activeDirection = "north-south"
    /\ yellowTimeout = 2
    /\ timers = SetToBag({[id |-> 2, kind |-> "yellow", rem |-> YellowDelay]})

\* The steps that run changeToRed(): the command, nextState() from yellow,
\* and the yellow timer's callback.
RunsChangeToRed ==
    \/ CmdChangeToRed
    \/ (currentState = "yellow" /\ CmdNextState)
    \/ \E t \in BagToSet(YellowTimers) : Fire(t)

\* C6: activeDirection changes only in a step that runs changeToRed();
\* that same step leaves the new active pair green and the old pair red;
\* changeToGreen, changeToYellow, startAutoMode, stopAutoMode and the
\* passing of time leave activeDirection unchanged.
C6_FlipOnlyInChangeToRed ==
    [][/\ (activeDirection' # activeDirection) =>
            /\ RunsChangeToRed
            /\ currentState' = "green"
            /\ PairShows(lights', activeDirection', "green")
            /\ PairShows(lights', activeDirection, "red")
       /\ (CmdChangeToGreen \/ CmdChangeToYellow \/ CmdStartAutoMode
             \/ CmdStopAutoMode \/ Tick)
            => activeDirection' = activeDirection]_vars

\* C6 witness: the state just after one manual changeToRed() on the fresh
\* controller: east-west green, north-south red.
C6_Witness ==
    /\ ncmd = 1
    /\ lastCmd = "changeToRed"
    /\ activeDirection = "east-west"
    /\ currentState = "green"
    /\ PairShows(lights, "east-west", "green")
    /\ PairShows(lights, "north-south", "red")

\* C7 (as claimed): after three back-to-back nextState() calls on the fresh
\* controller the direction has flipped exactly once (it is east-west) and
\* nothing changes any more: no transition fires 3 seconds later or ever.
C7_ThreeNextStates ==
    /\ [](ncmd = 3 => activeDirection = "east-west")
    /\ [][(ncmd = 3 /\ ncmd' = 3) => UNCHANGED ctl]_vars

\* C8 (as claimed): after changeToGreen() with no auto-cycle timer pending,
\* the phase stays green and the direction unchanged until a command comes.
C8_GreenNeverExpires ==
    [][(lastCmd = "changeToGreen" /\ lastCmd' = "changeToGreen"
          /\ NumAuto = 0)
          => (currentState' = "green"
              /\ activeDirection' = activeDirection)]_vars

\* C9: between operations the heads show a function of (currentState,
\* activeDirection) alone: both heads of the active pair show currentState,
\* north and south agree, east and west agree.
C9_HeadsFollowState ==
    /\ PairShows(lights, activeDirection, currentState)
    /\ getState(lights, "north") = getState(lights, "south")
    /\ getState(lights, "east") = getState(lights, "west")

\* C9 witness: a manual changeToGreen() took the active east-west pair out
\* of yellow while a yellow timer is still pending.
C9_Witness ==
    /\ lastCmd = "changeToGreen"
    /\ activeDirection = "east-west"
    /\ NumYellow = 1
    /\ getState(lights, "east") = "green"
    /\ getState(lights, "west") = "green"

\* C10: once the single startAutoMode() has been called and nothing else is
\* commanded, if every armed timer eventually fires then each direction is
\* the active pair showing green again and again, and the number of pending
\* timers never exceeds two.
C10_NoStarvation ==
    /\ [](lastCmd = "startAutoMode" =>
            <>(activeDirection = "north-south" /\ currentState = "green"
               /\ PairShows(lights, "north-south", "green")))
    /\ [](lastCmd = "startAutoMode" =>
            <>(activeDirection = "east-west" /\ currentState = "green"
               /\ PairShows(lights, "east-west", "green")))
    /\ [](BagCardinality(timers) <= 2)

\* C10 witness: north-south is green again after east-west has had its
\* turn, more than one full round after the start.
C10_Witness ==
    /\ lastCmd = "startAutoMode"
    /\ now >= 36
    /\ now < MaxClock
    /\ activeDirection = "north-south"
    /\ currentState = "green"
    /\ BagCardinality(timers) = 1

-----------------------------------------------------------------------------
(* Scenario: the only commands are startAutoMode() and stopAutoMode(), any *)
(* number of times at any times.                                           *)

NextStartStop ==
    \/ CmdStartAutoMode
    \/ CmdStopAutoMode
    \/ TimerFire
    \/ Tick

SpecStartStop == Init /\ [][NextStartStop]_vars

\* C11: changeToGreen(), changeToRed() and nextState() leave the pending
\* auto-cycle timers (10-second green expiry, 13-second continuation) and
\* the seconds each has left unchanged.
C11_ManualKeepsAutoTimers ==
    [][(CmdChangeToGreen \/ CmdChangeToRed \/ CmdNextState)
          => AutoTimers' = AutoTimers]_vars

\* C11 witness: startAutoMode(), four seconds, then nextState(): the cycle's
\* 10-second timer is still pending with six seconds left.
C11_Witness ==
    /\ ncmd = 2
    /\ lastCmd = "nextState"
    /\ currentState = "yellow"
    /\ AutoTimers = SetToBag({[id |-> 0, kind |-> "green", rem |-> 6]})

\* The method nextState() is claimed to dispatch to from phase p.
Dispatch(p, s) ==
    IF p = "green" THEN changeToYellow(s)
    ELSE IF p = "yellow" THEN changeToRed(s)
    ELSE changeToGreen(s)

\* C12: from every reachable controller state, and for each phase the
\* controller could hold there, nextState() leaves the fields, heads and
\* timers exactly as changeToYellow() does from green, changeToRed() from
\* yellow and changeToGreen() from red.
C12_NextStateDispatches ==
    \A p \in Phases :
        LET s == [State EXCEPT !.currentState = p]
        IN  nextState(s) = Dispatch(p, s)

\* C12 witness: nextState() has just run from yellow while an auto cycle
\* and the yellow timer of the call before are pending.
C12_Witness ==
    /\ lastCmd = "nextState"
    /\ ncmd = 3
    /\ currentState = "green"
    /\ activeDirection = "east-west"
    /\ NumAuto = 1
    /\ NumYellow = 1

\* C13: currentState is never red; exactly one pair of heads is non-red;
\* nextState() never finds the phase at index 2 of its sequence.
C13_NeverRed ==
    /\ currentState \in {"green", "yellow"}
    /\ NSNonRed # EWNonRed
    /\ indexOf(stateSequence, currentState) # 2

\* C13 witness: two nextState() calls on the fresh controller; the second
\* ran changeToRed(), which left the phase green for east-west.
C13_Witness ==
    /\ ncmd = 2
    /\ lastCmd = "nextState"
    /\ BagCardinality(timers) = 1
    /\ NumYellow = 1
    /\ activeDirection = "east-west"
    /\ currentState = "green"
    /\ PairShows(lights, "north-south", "red")

\* C14 (as claimed): whenever the phase is yellow a yellow timer is pending.
C14_YellowHasTimer == currentState = "yellow" => NumYellow >= 1

\* C14 (amended): whenever the phase is yellow, either stopAutoMode() has
\* cancelled the yellow timer since the last changeToYellow() (the handle
\* is null, which only a stopAutoMode() during yellow brings about) or
\* exactly the timer yellowTimeout names is pending and due within 3
\* seconds; and when a yellow timer fires the direction is handed over and
\* the new pair is green.
C14_YellowBoundedUnlessStopped ==
    /\ [](currentState = "yellow" =>
            \/ yellowTimeout = 0 /\ NumYellow = 0
            \/ /\ yellowTimeout # 0
               /\ NumYellow = 1
               /\ \A t \in BagToSet(YellowTimers) :
                      t.id = yellowTimeout /\ t.rem <= YellowDelay)
    /\ [][(/\ currentState' = "yellow" /\ yellowTimeout' = 0
           /\ ~(currentState = "yellow" /\ yellowTimeout = 0))
            => (CmdStopAutoMode /\ currentState = "yellow")]_vars
    /\ [][(\E t \in BagToSet(YellowTimers) : Fire(t)) =>
            /\ activeDirection' = Other(activeDirection)
            /\ currentState' = "green"]_vars

\* C14 witness: stopAutoMode() was the last command, the cycle's surviving
\* 10-second timer has since turned the phase yellow, and the yellow timer
\* is one second from firing.
C14_Witness ==
    /\ lastCmd = "stopAutoMode"
    /\ currentState = "yellow"
    /\ yellowTimeout # 0
    /\ \E t \in BagToSet(YellowTimers) : t.rem = 1

\* C15 (as claimed): with only startAutoMode() and stopAutoMode() issued,
\* the phase never goes from yellow back to green for the same direction,
\* and the direction never flips while the phase is green.
C15_GreenYellowHandover ==
    [][/\ (currentState = "yellow" /\ currentState' = "green")
            => activeDirection' # activeDirection
       /\ (activeDirection' # activeDirection)
            => currentState = "yellow"]_vars

=============================================================================
